---- MODULE Spec2Model ----
(***************************************************************************)
(* Model of sfun_decode_nomem.cpp: the Simulink S-function block that      *)
(* tries, once per simulation cycle, to decode one SBGC serial-API frame   *)
(* from its input byte vector.                                             *)
(*                                                                         *)
(* mdlOutputs is modelled statement by statement: the no-data branch, the  *)
(* set-up of the local parser, one action per iteration of the feed loop   *)
(* and the final write of the completion flag.  The SBGC_Parser class      *)
(* lives in the SBGC library (lib/sbgc-api-examples), which is not part of *)
(* src/; its process_char / reset / init_noCom are modelled after the      *)
(* frame-decoder state machine of spec.md section 4.1.                     *)
(*                                                                         *)
(* Bytes are the integers 0..255 and checksums are computed modulo 256.    *)
(* Input B (a double) is modelled in tenths: 5 stands for 0.5.             *)
(***************************************************************************)
EXTENDS Integers, Sequences, FiniteSets, TLC

VARIABLES
    uvec,          \* Input A: the byte vector of this cycle (1-based here)
    status,        \* Input B: the "data available" flag, in tenths
    y0,            \* Output A
    y1,            \* Output B
    pc,            \* position inside / outside mdlOutputs
    sbgc_parser,   \* the local SBGC_Parser object
    numErr_start,  \* local: last error count seen by the loop
    done,          \* local: return value of the last process_char
    uidx,          \* local: loop index (0-based, as in the source)
    fed,           \* history: the indices passed to process_char this call
    rets,          \* history: what each of those feeds reported
    phs,           \* history: the decoder phase each of those feeds found
    prev           \* history: how the previous invocation left its decoder

vars == <<uvec, status, y0, y1, pc, sbgc_parser, numErr_start, done, uidx, fed, rets, phs, prev>>

----------------------------------------------------------------------------
(* Bounds of the model *)

\* width of input port 0 (SBGC_CMD_MAX_BYTES in the library, scaled down)
MaxBytes == 11
\* longest run of non-header bytes put in front of a frame
MaxGarbage == 2
\* longest free-form byte string tried as a buffer prefix
MaxNoise == 4
\* longest payload of the frames used in the multi-cycle specification
MaxCyclePayload == 1

(* Program constants *)

\* '>' : the frame start marker
SBGC_CMD_START_BYTE == 62
\* 0.5, in tenths
HalfTenths == 5

Byte == 0..255

Phases == {"SEEK_HEADER", "READ_CMD_ID", "READ_LENGTH", "VERIFY_HEADER_CHECKSUM",
           "READ_PAYLOAD", "VERIFY_PAYLOAD_CHECKSUM", "DONE"}

FeedResults == {"CONTINUE", "FRAME_READY", "FRAME_DISCARDED"}

----------------------------------------------------------------------------
(* The frame decoder (SBGC_Parser), after spec.md 4.1 *)

RECURSIVE SumBytes(_)
SumBytes(s) == IF s = <<>> THEN 0 ELSE s[1] + SumBytes(Tail(s))

\* additive checksum, modulo 256, over the covered bytes
checksum(s) == SumBytes(s) % 256

\* a fresh decoder: header search, nothing accumulated, no error counted
init_noCom ==
    [phase |-> "SEEK_HEADER", command_id |-> 0, payload_length |-> 0,
     payload |-> <<>>, error_count |-> 0]

\* one byte into the decoder: the new decoder state and what the feed reports
feed(p, c) ==
    CASE p.phase = "SEEK_HEADER" ->
           IF c = SBGC_CMD_START_BYTE
           THEN [p |-> [p EXCEPT !.phase = "READ_CMD_ID", !.command_id = 0,
                                 !.payload_length = 0, !.payload = <<>>],
                 r |-> "CONTINUE"]
           ELSE [p |-> p, r |-> "CONTINUE"]
      [] p.phase = "READ_CMD_ID" ->
           [p |-> [p EXCEPT !.phase = "READ_LENGTH", !.command_id = c],
            r |-> "CONTINUE"]
      [] p.phase = "READ_LENGTH" ->
           [p |-> [p EXCEPT !.phase = "VERIFY_HEADER_CHECKSUM", !.payload_length = c],
            r |-> "CONTINUE"]
      [] p.phase = "VERIFY_HEADER_CHECKSUM" ->
           IF c = checksum(<<p.command_id, p.payload_length>>)
           THEN [p |-> [p EXCEPT !.phase = IF p.payload_length = 0
                                           THEN "VERIFY_PAYLOAD_CHECKSUM"
                                           ELSE "READ_PAYLOAD"],
                 r |-> "CONTINUE"]
           ELSE [p |-> [p EXCEPT !.phase = "SEEK_HEADER",
                                 !.error_count = (p.error_count + 1) % 65536],
                 r |-> "FRAME_DISCARDED"]
      [] p.phase = "READ_PAYLOAD" ->
           LET pl == Append(p.payload, c)
           IN  [p |-> [p EXCEPT !.payload = pl,
                                !.phase = IF Len(pl) = p.payload_length
                                          THEN "VERIFY_PAYLOAD_CHECKSUM"
                                          ELSE "READ_PAYLOAD"],
                r |-> "CONTINUE"]
      [] p.phase = "VERIFY_PAYLOAD_CHECKSUM" ->
           IF c = checksum(p.payload)
           THEN [p |-> [p EXCEPT !.phase = "DONE"], r |-> "FRAME_READY"]
           ELSE [p |-> [p EXCEPT !.phase = "SEEK_HEADER",
                                 !.error_count = (p.error_count + 1) % 65536],
                 r |-> "FRAME_DISCARDED"]
      \* DONE: the driver never feeds a finished decoder
      [] OTHER -> [p |-> p, r |-> "CONTINUE"]

\* process_char returns 1 when a command was parsed, 0 otherwise
process_char(p, c) ==
    LET f == feed(p, c)
    IN  [p |-> f.p, r |-> f.r, done |-> IF f.r = "FRAME_READY" THEN 1 ELSE 0]

get_parse_error_count(p) == p.error_count

reset(p) == [p EXCEPT !.phase = "SEEK_HEADER"]

----------------------------------------------------------------------------
(* Input buffers *)

len_uvec == MaxBytes

\* a buffer of the port's width: s, cut or filled up with zero bytes
Fit(s) == [i \in 1..len_uvec |-> IF i <= Len(s) THEN s[i] ELSE 0]

SeqsUpTo(S, n) == UNION {[1..k -> S] : k \in 0..n}

\* payloads of length L: a filler byte everywhere, except at most one position
\* holding the header value
Payloads(L) ==
    {[i \in 1..L |-> IF i = j THEN SBGC_CMD_START_BYTE ELSE b] :
        j \in 0..L, b \in {1, 200}}

\* the bytes of a frame; dh and dp are added to the two checksums (0: well formed)
FrameBytes(id, pl, dh, dp) ==
    <<SBGC_CMD_START_BYTE, id, Len(pl), (checksum(<<id, Len(pl)>>) + dh) % 256>>
      \o pl \o <<(checksum(pl) + dp) % 256>>

\* a frame is header, command id, length, header checksum, payload, payload
\* checksum: the longest payload of a frame that fits the buffer
MaxPayload == len_uvec - 5

WellFormed(ids, maxL) ==
    {FrameBytes(id, pl, 0, 0) : id \in ids, pl \in UNION {Payloads(L) : L \in 0..maxL}}

Corrupted(ids, maxL) ==
    {FrameBytes(id, pl, d[1], d[2]) :
        id \in ids, pl \in UNION {Payloads(L) : L \in 0..maxL},
        d \in {<<1, 0>>, <<0, 1>>}}

Garbage == SeqsUpTo({255}, MaxGarbage)

Tails == {<<>>, <<SBGC_CMD_START_BYTE>>, <<SBGC_CMD_START_BYTE, 2>>}
           \cup WellFormed({2, SBGC_CMD_START_BYTE}, 1)

Noise == SeqsUpTo({0, 1, SBGC_CMD_START_BYTE, 255}, MaxNoise)

Buffers ==
    {Fit(g \o a \o t) :
        g \in Garbage,
        a \in {<<>>} \cup WellFormed({1, SBGC_CMD_START_BYTE}, MaxPayload)
                     \cup Corrupted({1, SBGC_CMD_START_BYTE}, MaxPayload),
        t \in Tails}
    \cup {Fit(n) : n \in Noise}

\* a well-formed frame placed so that its payload checksum falls off the buffer
CutOffFrame == [i \in 1..(len_uvec - 5) |-> 255] \o FrameBytes(1, <<7>>, 0, 0)

CycleBuffers ==
    {Fit(CutOffFrame)} \cup
    {Fit(g \o a) :
        g \in SeqsUpTo({255}, 1),
        a \in {<<>>, <<SBGC_CMD_START_BYTE, 1, 200, 201, 7>>}
                \cup WellFormed({1, SBGC_CMD_START_BYTE}, MaxCyclePayload)
                \cup Corrupted({1}, MaxCyclePayload)}

Statuses == {0, 4, 5, 10}

\* what an uninitialised uint8_T local may hold
UninitBytes == {0, 1, 255}

----------------------------------------------------------------------------
(* mdlOutputs *)

\* mutant: only a flag of zero or less counts as "no data"
NoData_NonPositive(s) == s <= 0

\* line 151: status[0] < 0.5f
NoData(s) == s < HalfTenths

\* lines 152-153: the value written to both outputs when there is no data
NoDataValue == -1

\* mutant: the preset of a failed decode is the no-data value
PresetY0_Sentinel == NoDataValue

\* line 157: preset y0 for if decoding fails
PresetY0 == 0

\* mutant: the comparison is reversed, the loop body never runs
LoopCond_Reversed(i) == i > len_uvec

\* line 164: the loop condition
LoopCond(i) == i < len_uvec

\* mutant: every other byte is skipped
NextIdx_Skip(i) == i + 2

\* mutant: the index is not advanced
NextIdx_Stuck(i) == i

\* line 164: uidx++
NextIdx(i) == i + 1

\* mutant: the loop starts at the second byte
FirstIdx_One == NextIdx(0)

\* line 164: int uidx = 0
FirstIdx == 0

\* mutant: the byte before the current one is fed
ByteAt_Prev(buf, i) == buf[IF i = 0 THEN 1 ELSE i]

\* line 171: uvec[uidx] (the vector is 1-based here)
ByteAt(buf, i) == buf[i + 1]

\* mutant: the parser is reset after every feed
ErrorRose_Always(p, n) == get_parse_error_count(p) >= n

\* mutant: the comparison is reversed, a risen error count is never noticed
ErrorRose_Reversed(p, n) == get_parse_error_count(p) < n

\* line 173
ErrorRose(p, n) == get_parse_error_count(p) > n

\* line 178
FrameDone(d) == d > 0

\* mutant: the length field is reported instead of the command id
CmdOut_Length(p) == p.payload_length

\* lines 179-180: y0[0] = (real_T) cmd.id
CmdOut(p) == p.command_id

\* mutant: the flag is inverted
FlagOut_Negated(d) == IF d > 0 THEN 0 ELSE 1

\* mutant: "not done" is reported with the no-data value
FlagOut_Sentinel(d) == IF d > 0 THEN d ELSE NoDataValue

\* line 185: y1[0] = (real_T) done
FlagOut(d) == d

\* mutant: the parser object outlives the call and is not initialised again
NewParser_Kept(old) == old

\* lines 159-160: SBGC_Parser sbgc_parser; sbgc_parser.init_noCom();
NewParser(old) == init_noCom

TypeOK ==
    /\ uvec \in [1..len_uvec -> Byte]
    /\ status \in Statuses
    /\ y0 \in {-1} \cup Byte
    /\ y1 \in {-1} \cup Byte
    /\ pc \in {"call", "loop", "break", "ret"}
    /\ sbgc_parser.phase \in Phases
    /\ sbgc_parser.command_id \in Byte
    /\ sbgc_parser.payload_length \in Byte
    /\ sbgc_parser.payload \in Seq(Byte)
    /\ sbgc_parser.error_count \in 0..65535
    /\ numErr_start \in 0..65535
    /\ done \in Byte
    /\ uidx \in 0..len_uvec
    /\ fed \in Seq(0..len_uvec)
    /\ rets \in Seq(FeedResults)
    /\ phs \in Seq(Phases)
    /\ prev \in {"none", "nodata"} \cup Phases

\* the block before its first call, with the inputs of the first cycle in place
InitWith(bufs) ==
    /\ uvec \in bufs
    /\ status \in Statuses
    /\ y0 = 0
    /\ y1 = 0
    /\ pc = "call"
    /\ sbgc_parser = init_noCom
    /\ numErr_start = 0
    /\ done = 0
    /\ uidx = 0
    /\ fed = <<>>
    /\ rets = <<>>
    /\ phs = <<>>
    /\ prev = "none"

Init == InitWith(Buffers)

\* lines 151-155: no data this cycle
mdlOutputsNoData ==
    /\ pc = "call"
    /\ NoData(status)
    /\ y0' = NoDataValue
    /\ y1' = NoDataValue
    /\ pc' = "ret"
    /\ fed' = <<>>
    /\ rets' = <<>>
    /\ phs' = <<>>
    /\ UNCHANGED <<uvec, status, sbgc_parser, numErr_start, done, uidx, prev>>

\* lines 157-164: preset, fresh parser, loop initialisation
mdlOutputsBegin ==
    /\ pc = "call"
    /\ ~NoData(status)
    /\ y0' = PresetY0
    /\ sbgc_parser' = NewParser(sbgc_parser)
    /\ numErr_start' = get_parse_error_count(sbgc_parser')
    /\ done' \in UninitBytes
    /\ uidx' = FirstIdx
    /\ pc' = "loop"
    /\ fed' = <<>>
    /\ rets' = <<>>
    /\ phs' = <<>>
    /\ UNCHANGED <<uvec, status, y1, prev>>

\* mutant: the loop gives up at the first discarded frame
LoopIter_AbortOnError ==
    /\ pc = "loop"
    /\ LoopCond(uidx)
    /\ LET f    == process_char(sbgc_parser, ByteAt(uvec, uidx))
           rose == ErrorRose(f.p, numErr_start)
           p2   == IF rose THEN reset(f.p) ELSE f.p
       IN  /\ done' = f.done
           /\ numErr_start' = IF rose THEN get_parse_error_count(f.p) ELSE numErr_start
           /\ sbgc_parser' = p2
           /\ fed' = Append(fed, uidx)
           /\ rets' = Append(rets, f.r)
           /\ phs' = Append(phs, sbgc_parser.phase)
           /\ IF FrameDone(f.done) \/ rose
              THEN /\ y0' = IF FrameDone(f.done) THEN CmdOut(p2) ELSE y0
                   /\ uidx' = uidx
                   /\ pc' = "break"
              ELSE /\ y0' = y0
                   /\ uidx' = NextIdx(uidx)
                   /\ pc' = "loop"
    /\ UNCHANGED <<uvec, status, y1, prev>>

\* mutant: the break after a decoded frame is missing
LoopIter_NoBreak ==
    /\ pc = "loop"
    /\ LoopCond(uidx)
    /\ LET f    == process_char(sbgc_parser, ByteAt(uvec, uidx))
           rose == ErrorRose(f.p, numErr_start)
           p2   == IF rose THEN reset(f.p) ELSE f.p
       IN  /\ done' = f.done
           /\ numErr_start' = IF rose THEN get_parse_error_count(f.p) ELSE numErr_start
           /\ sbgc_parser' = p2
           /\ fed' = Append(fed, uidx)
           /\ rets' = Append(rets, f.r)
           /\ phs' = Append(phs, sbgc_parser.phase)
           /\ y0' = IF FrameDone(f.done) THEN CmdOut(p2) ELSE y0
           /\ uidx' = NextIdx(uidx)
           /\ pc' = "loop"
    /\ UNCHANGED <<uvec, status, y1, prev>>

\* mutant: after a discarded frame the failing byte is fed again
LoopIter_Rescan ==
    /\ pc = "loop"
    /\ LoopCond(uidx)
    /\ LET f    == process_char(sbgc_parser, ByteAt(uvec, uidx))
           rose == ErrorRose(f.p, numErr_start)
           p2   == IF rose THEN reset(f.p) ELSE f.p
       IN  /\ done' = f.done
           /\ numErr_start' = IF rose THEN get_parse_error_count(f.p) ELSE numErr_start
           /\ sbgc_parser' = p2
           /\ fed' = Append(fed, uidx)
           /\ rets' = Append(rets, f.r)
           /\ phs' = Append(phs, sbgc_parser.phase)
           /\ IF FrameDone(f.done)
              THEN /\ y0' = CmdOut(p2)
                   /\ uidx' = uidx
                   /\ pc' = "break"
              ELSE /\ y0' = y0
                   /\ uidx' = IF rose THEN uidx ELSE NextIdx(uidx)
                   /\ pc' = "loop"
    /\ UNCHANGED <<uvec, status, y1, prev>>

\* lines 164-183: one iteration of the feed loop
LoopIter ==
    /\ pc = "loop"
    /\ LoopCond(uidx)
    /\ LET f    == process_char(sbgc_parser, ByteAt(uvec, uidx))
           rose == ErrorRose(f.p, numErr_start)
           p2   == IF rose THEN reset(f.p) ELSE f.p
       IN  /\ done' = f.done
           /\ numErr_start' = IF rose THEN get_parse_error_count(f.p) ELSE numErr_start
           /\ sbgc_parser' = p2
           /\ fed' = Append(fed, uidx)
           /\ rets' = Append(rets, f.r)
           /\ phs' = Append(phs, sbgc_parser.phase)
           /\ IF FrameDone(f.done)
              THEN /\ y0' = CmdOut(p2)
                   /\ uidx' = uidx
                   /\ pc' = "break"
              ELSE /\ y0' = y0
                   /\ uidx' = NextIdx(uidx)
                   /\ pc' = "loop"
    /\ UNCHANGED <<uvec, status, y1, prev>>

\* line 185, after the loop ended by break or by its condition
mdlOutputsEnd ==
    /\ \/ pc = "break"
       \/ pc = "loop" /\ ~LoopCond(uidx)
    /\ y1' = FlagOut(done)
    /\ pc' = "ret"
    /\ UNCHANGED <<uvec, status, y0, sbgc_parser, numErr_start, done, uidx, fed, rets, phs, prev>>

\* the host presents the inputs of the next cycle and calls mdlOutputs again
NextCycle ==
    /\ pc = "ret"
    /\ uvec' \in CycleBuffers
    /\ status' \in Statuses
    /\ pc' = "call"
    /\ prev' = IF y1 = NoDataValue THEN "nodata" ELSE sbgc_parser.phase
    /\ UNCHANGED <<y0, y1, sbgc_parser, numErr_start, done, uidx, fed, rets, phs>>

Next ==
    \/ mdlOutputsNoData
    \/ mdlOutputsBegin
    \/ LoopIter
    \/ mdlOutputsEnd

\* one invocation of mdlOutputs on each input
Spec == Init /\ [][Next]_vars

InitCycles == InitWith(CycleBuffers)

NextCycles ==
    \/ Next
    \/ NextCycle

\* successive invocations
SpecCycles == InitCycles /\ [][NextCycles]_vars

\* the whole valid-input path of mdlOutputs (lines 157-185) as a function of the
\* buffer, from a cold start; d0 is what the uninitialised local done holds
RECURSIVE decodeFrom(_, _, _, _, _, _)
decodeFrom(buf, i, p, n, y, d) ==
    IF ~LoopCond(i)
    THEN <<y, FlagOut(d)>>
    ELSE LET f    == process_char(p, ByteAt(buf, i))
             rose == ErrorRose(f.p, n)
             p2   == IF rose THEN reset(f.p) ELSE f.p
             n2   == IF rose THEN get_parse_error_count(f.p) ELSE n
         IN  IF FrameDone(f.done)
             THEN <<CmdOut(p2), FlagOut(f.done)>>
             ELSE decodeFrom(buf, NextIdx(i), p2, n2, y, f.done)

decode(buf, d0) ==
    decodeFrom(buf, FirstIdx, init_noCom, get_parse_error_count(init_noCom), PresetY0, d0)

----------------------------------------------------------------------------
(* Vocabulary of the properties *)

Returned == pc = "ret"

ValidInput == status >= 5

RECURSIVE SumRange(_, _, _)
SumRange(b, i, j) == IF i > j THEN 0 ELSE b[i] + SumRange(b, i + 1, j)

\* a header byte at position k (1-based) whose declared frame lies inside b
FramedAt(b, k) ==
    /\ k >= 1
    /\ k + 4 <= Len(b)
    /\ b[k] = 62
    /\ k + 4 + b[k + 2] <= Len(b)

HeaderSumOk(b, k) == b[k + 3] = (b[k + 1] + b[k + 2]) % 256

PayloadSumOk(b, k) ==
    b[k + 4 + b[k + 2]] = SumRange(b, k + 4, k + 3 + b[k + 2]) % 256

\* a well-formed frame starts at position k of b
WellFormedAt(b, k) == FramedAt(b, k) /\ HeaderSumOk(b, k) /\ PayloadSumOk(b, k)

\* the position right after the frame that starts at k
FrameEnd(b, k) == k + 5 + b[k + 2]

NoHeaderIn(b, i, j) == \A m \in i..j : b[m] # 62

----------------------------------------------------------------------------
(* C1 *)

\* C1: on a valid-input cycle whose buffer starts with a well-formed frame
\* (header 0x3E, any command id, any payload that fits, both additive
\* checksums right), mdlOutputs returns Output B = 1 and Output A = that
\* frame's command id.
C1_WellFormedFrameDecodes ==
    (Returned /\ ValidInput /\ WellFormedAt(uvec, 1))
        => (y1 = 1 /\ y0 = uvec[2])

\* a frame with the longest payload that fits, and a command id that differs
\* from its length, was decoded
C1_Witness ==
    /\ Returned /\ ValidInput /\ WellFormedAt(uvec, 1)
    /\ uvec[3] = MaxPayload
    /\ uvec[2] # uvec[3]
    /\ y1 = 1 /\ y0 = uvec[2]

----------------------------------------------------------------------------
(* C2 *)

\* a frame with a header byte and a length that fits, one of whose checksums
\* is wrong
CorruptedAt(b, k) == FramedAt(b, k) /\ (~HeaderSumOk(b, k) \/ ~PayloadSumOk(b, k))

----------------------------------------------------------------------------
(* C3 *)

\* C3: when Input B is below 0.5 the call returns at once: no byte is fed to a
\* decoder and both outputs are -1, whatever the buffer holds.
C3_NoDataNoDecode ==
    (pc # "call" /\ status < 5)
        => (Returned /\ y0 = -1 /\ y1 = -1 /\ fed = <<>> /\ rets = <<>>)

\* a flag of 0.4 with a decodable frame in the buffer
C3_Witness ==
    /\ Returned /\ status = 4 /\ WellFormedAt(uvec, 1)
    /\ y0 = -1 /\ y1 = -1 /\ fed = <<>>

----------------------------------------------------------------------------
(* C4 *)

\* C4: garbage-prefix tolerance.  When the buffer is k bytes none of which is
\* 0x3E followed by a well-formed frame, the outputs are those of decoding the
\* buffer that starts with that frame: done with the frame's command id.
C4_GarbagePrefix ==
    (Returned /\ ValidInput) =>
        \A k \in 1..(len_uvec - 5) :
            (NoHeaderIn(uvec, 1, k) /\ WellFormedAt(uvec, k + 1)) =>
                /\ \A d0 \in UninitBytes :
                      <<y0, y1>> = decode(Fit(SubSeq(uvec, k + 1, len_uvec)), d0)
                /\ y1 = 1
                /\ y0 = uvec[k + 2]

\* the longest garbage prefix in front of a frame with a payload
C4_Witness ==
    /\ Returned /\ ValidInput
    /\ NoHeaderIn(uvec, 1, MaxGarbage) /\ WellFormedAt(uvec, MaxGarbage + 1)
    /\ uvec[MaxGarbage + 3] >= 1
    /\ y1 = 1 /\ y0 = uvec[MaxGarbage + 2]

----------------------------------------------------------------------------
(* C5 *)

\* byte strings put behind a decoded frame
Followers == Tails \cup {[i \in 1..len_uvec |-> 255]}

\* C5: first frame only.  A feed that reports FRAME_READY is the last feed of
\* the call; the outputs of a call that decoded a frame are the same whatever
\* bytes follow the last byte fed; and of two well-formed frames back to back
\* the first one's command id is returned.
C5_FirstFrameOnly ==
    /\ \A i \in 1..Len(rets) :
          rets[i] = "FRAME_READY" => (i = Len(rets) /\ pc \in {"break", "ret"})
    /\ (Returned /\ ValidInput /\ y1 = 1) =>
          \A t \in Followers : \A d0 \in UninitBytes :
              decode(Fit(SubSeq(uvec, 1, fed[Len(fed)] + 1) \o t), d0) = <<y0, y1>>
    /\ (/\ Returned /\ ValidInput
        /\ WellFormedAt(uvec, 1)
        /\ WellFormedAt(uvec, FrameEnd(uvec, 1)))
          => (y1 = 1 /\ y0 = uvec[2])

\* two well-formed frames with different command ids back to back: the first
\* was returned and the second never fed
C5_Witness ==
    /\ Returned /\ ValidInput
    /\ WellFormedAt(uvec, 1)
    /\ WellFormedAt(uvec, FrameEnd(uvec, 1))
    /\ uvec[FrameEnd(uvec, 1) + 1] # uvec[2]
    /\ Len(fed) = FrameEnd(uvec, 1) - 1
    /\ y1 = 1 /\ y0 = uvec[2]

----------------------------------------------------------------------------
(* C6 *)

\* C6: on a valid-input cycle whose buffer holds no 0x3E, the decoder is in
\* SEEK_HEADER after every feed, no feed reports anything but CONTINUE, the
\* error count stays 0, and the call consumes the whole buffer and returns
\* Output B = 0.
C6_NoHeaderNoFrame ==
    (ValidInput /\ pc # "call" /\ NoHeaderIn(uvec, 1, len_uvec)) =>
        /\ sbgc_parser.phase = "SEEK_HEADER"
        /\ sbgc_parser.error_count = 0
        /\ \A i \in 1..Len(rets) : rets[i] = "CONTINUE"
        /\ Returned => (y1 = 0 /\ Len(fed) = len_uvec)

\* a buffer of non-zero, non-header bytes was consumed to its end
C6_Witness ==
    /\ Returned /\ ValidInput /\ NoHeaderIn(uvec, 1, len_uvec)
    /\ \E i \in 1..len_uvec : uvec[i] = 255
    /\ Len(fed) = len_uvec
    /\ y1 = 0

----------------------------------------------------------------------------
(* C7 *)

\* C7: no cross-cycle memory.  Whatever the previous calls did, the outputs of
\* a call are those of decoding its buffer from a cold start (and (-1, -1)
\* when the flag says no data).
C7_NoCrossCycleMemory ==
    Returned =>
        IF ValidInput
        THEN \A d0 \in UninitBytes : <<y0, y1>> = decode(uvec, d0)
        ELSE <<y0, y1>> = <<-1, -1>>

\* a frame was decoded in a call that follows a call whose buffer ended in the
\* middle of a payload
C7_Witness ==
    /\ Returned /\ ValidInput
    /\ prev = "READ_PAYLOAD"
    /\ WellFormedAt(uvec, 1)
    /\ y1 = 1 /\ y0 = uvec[2]

----------------------------------------------------------------------------
(* C8 *)

\* C8: output convention.  After a no-data call the outputs are (-1, -1).
\* After a valid-input call either Output B = 1, the last feed reported
\* FRAME_READY and Output A is the command id of the well-formed frame that
\* ends at the last byte fed, or Output B = 0, Output A = 0 and no feed
\* reported FRAME_READY.
C8_OutputConvention ==
    Returned =>
        IF ~ValidInput
        THEN y0 = -1 /\ y1 = -1
        ELSE \/ /\ y1 = 1
                /\ rets # <<>>
                /\ rets[Len(rets)] = "FRAME_READY"
                /\ \E k \in 1..len_uvec :
                      /\ WellFormedAt(uvec, k)
                      /\ FrameEnd(uvec, k) = Len(fed) + 1
                      /\ y0 = uvec[k + 1]
             \/ /\ y1 = 0
                /\ y0 = 0
                /\ \A i \in 1..Len(rets) : rets[i] # "FRAME_READY"

\* a call that discarded a frame and found no other: outputs (0, 0)
C8_Witness ==
    /\ Returned /\ ValidInput
    /\ \E i \in 1..Len(rets) : rets[i] = "FRAME_DISCARDED"
    /\ y0 = 0 /\ y1 = 0

----------------------------------------------------------------------------
(* C9 *)

\* C9: termination.  The indices fed are strictly increasing positions of the
\* buffer, so there are never more feeds than bytes; every state short of the
\* return has a next step; and a valid-input call ends either with a decoded
\* frame (Output B = 1) or, having consumed the whole buffer, with Output
\* B = 0, also when feeds reported FRAME_DISCARDED on the way.
C9_Terminates ==
    /\ Len(fed) <= len_uvec
    /\ Len(rets) = Len(fed)
    /\ \A i \in 1..Len(fed) : fed[i] \in 0..(len_uvec - 1)
    /\ \A i, j \in 1..Len(fed) : i < j => fed[i] < fed[j]
    /\ Returned \/ ENABLED Next
    /\ (Returned /\ ValidInput) =>
          \/ y1 = 1 /\ rets[Len(rets)] = "FRAME_READY"
          \/ y1 = 0 /\ Len(fed) = len_uvec

\* a call that went on after two discarded frames and consumed the buffer
C9_Witness ==
    /\ Returned /\ ValidInput
    /\ \E i, j \in 1..Len(rets) :
          i < j /\ rets[i] = "FRAME_DISCARDED" /\ rets[j] = "FRAME_DISCARDED"
    /\ Len(fed) = len_uvec
    /\ y1 = 0

----------------------------------------------------------------------------
(* C10 *)

\* C10: a buffer that starts with a frame whose header checksum byte is wrong
\* and holds no header byte after it decodes to Output B = 0 (and the preset
\* Output A = 0); the fourth feed is the one that discards the frame.
C10_BadHeaderChecksum ==
    (/\ Returned /\ ValidInput
     /\ uvec[1] = 62
     /\ ~HeaderSumOk(uvec, 1)
     /\ NoHeaderIn(uvec, 5, len_uvec))
        => (y1 = 0 /\ y0 = 0 /\ rets[4] = "FRAME_DISCARDED")

\* the scenario of the specification: 3E 01 00 FF 00
C10_Witness ==
    /\ Returned /\ ValidInput
    /\ uvec = Fit(<<62, 1, 0, 255, 0>>)
    /\ y1 = 0
    /\ rets[4] = "FRAME_DISCARDED"

----------------------------------------------------------------------------
(* C11 *)

\* inside a valid-input call, or at its return
InCall == pc \in {"loop", "break"} \/ (Returned /\ ValidInput)

\* C11: soundness of completion.  Whenever the decoder is in DONE (and so
\* whenever the call returns Output B = 1), the bytes that end at the last
\* byte fed are a contiguous frame 0x3E, id, L, header checksum, L payload
\* bytes, payload checksum with both checksums right; the decoder holds that
\* id, that L and exactly those payload bytes, and Output A is that id.
C11_CompletionSound ==
    (InCall /\ (sbgc_parser.phase = "DONE" \/ (Returned /\ y1 = 1))) =>
        /\ fed # <<>>
        /\ rets[Len(rets)] = "FRAME_READY"
        /\ sbgc_parser.phase = "DONE"
        /\ LET e == fed[Len(fed)] + 1
               L == sbgc_parser.payload_length
               k == e - 4 - L
           IN  /\ WellFormedAt(uvec, k)
               /\ FrameEnd(uvec, k) = e + 1
               /\ sbgc_parser.command_id = uvec[k + 1]
               /\ L = uvec[k + 2]
               /\ sbgc_parser.payload = SubSeq(uvec, k + 4, k + 3 + L)
               /\ pc \in {"break", "ret"} => y0 = uvec[k + 1]

\* a frame behind a garbage byte, with a header value among its two or more
\* payload bytes, was completed
C11_Witness ==
    /\ Returned /\ ValidInput /\ y1 = 1
    /\ sbgc_parser.phase = "DONE"
    /\ sbgc_parser.payload_length >= 2
    /\ \E i \in 1..Len(sbgc_parser.payload) : sbgc_parser.payload[i] = 62
    /\ uvec[1] # 62
    /\ y0 = sbgc_parser.command_id

----------------------------------------------------------------------------
(* C12 *)

\* a step that feeds one byte to the decoder
FeedStep == pc = "loop" /\ fed' # fed

\* the byte such a step feeds
FedByte == uvec[uidx + 1]

HeaderSumMatches ==
    FedByte = (sbgc_parser.command_id + sbgc_parser.payload_length) % 256

\* C12: header-checksum gate.  A feed moves the decoder into READ_PAYLOAD
\* (into VERIFY_PAYLOAD_CHECKSUM from outside READ_PAYLOAD) only from
\* VERIFY_HEADER_CHECKSUM, with a byte equal to (command_id + payload_length)
\* mod 256, and into READ_PAYLOAD exactly when payload_length is not 0.  A feed
\* in VERIFY_HEADER_CHECKSUM with any other byte reports FRAME_DISCARDED,
\* counts one error, leaves the decoder in SEEK_HEADER and no payload byte is
\* accumulated.
C12_HeaderChecksumGate ==
    [][FeedStep =>
        /\ (sbgc_parser'.phase = "READ_PAYLOAD" /\ sbgc_parser.phase # "READ_PAYLOAD") =>
              /\ sbgc_parser.phase = "VERIFY_HEADER_CHECKSUM"
              /\ HeaderSumMatches
              /\ sbgc_parser.payload_length # 0
        /\ (/\ sbgc_parser'.phase = "VERIFY_PAYLOAD_CHECKSUM"
            /\ sbgc_parser.phase # "READ_PAYLOAD") =>
              /\ sbgc_parser.phase = "VERIFY_HEADER_CHECKSUM"
              /\ HeaderSumMatches
              /\ sbgc_parser.payload_length = 0
        /\ (sbgc_parser.phase = "VERIFY_HEADER_CHECKSUM" /\ ~HeaderSumMatches) =>
              /\ rets'[Len(rets')] = "FRAME_DISCARDED"
              /\ sbgc_parser'.phase = "SEEK_HEADER"
              /\ sbgc_parser'.error_count = sbgc_parser.error_count + 1
              /\ sbgc_parser'.payload = <<>>
              /\ done' = 0
    ]_vars

\* a header checksum mismatch on a frame that declares a payload: the decoder
\* is back in SEEK_HEADER with an empty payload
C12_Witness ==
    /\ pc = "loop"
    /\ rets # <<>>
    /\ rets[Len(rets)] = "FRAME_DISCARDED"
    /\ phs[Len(phs)] = "VERIFY_HEADER_CHECKSUM"
    /\ sbgc_parser.payload_length >= 1
    /\ sbgc_parser.phase = "SEEK_HEADER"
    /\ sbgc_parser.payload = <<>>

----------------------------------------------------------------------------
(* C13 *)

\* feed number i reported FRAME_DISCARDED for the frame attempt that feed
\* number s started: s found SEEK_HEADER and a header byte, and i is the
\* header checksum (three feeds later) or the payload checksum (4 + declared
\* length feeds later) of that attempt
AttemptOf(i, s) ==
    /\ phs[s] = "SEEK_HEADER"
    /\ uvec[fed[s] + 1] = 62
    /\ \/ phs[i] = "VERIFY_HEADER_CHECKSUM" /\ i - s = 3
       \/ phs[i] = "VERIFY_PAYLOAD_CHECKSUM" /\ i - s = 4 + uvec[fed[s] + 3]

\* C13: recovery point.  The bytes of a discarded frame attempt, from the one
\* after its header byte to the failing checksum byte, are consecutive bytes
\* of the buffer, each fed once and none of them met in SEEK_HEADER, whatever
\* their values; the feed after the failing checksum byte is of the very next
\* byte, finds the decoder in SEEK_HEADER, and starts a frame exactly when
\* that byte is 0x3E.
C13_RecoveryPoint ==
    InCall =>
        \A i \in 1..Len(rets) :
            rets[i] = "FRAME_DISCARDED" =>
                /\ \E s \in 1..i :
                      /\ AttemptOf(i, s)
                      /\ \A j \in (s + 1)..i :
                            phs[j] # "SEEK_HEADER" /\ fed[j] = fed[s] + (j - s)
                /\ \A j \in 1..Len(fed) : j # i => fed[j] # fed[i]
                /\ i = Len(fed) => sbgc_parser.phase = "SEEK_HEADER"
                /\ i < Len(fed) =>
                      /\ fed[i + 1] = fed[i] + 1
                      /\ phs[i + 1] = "SEEK_HEADER"
                      /\ LET after == IF i + 1 < Len(fed) THEN phs[i + 2]
                                                           ELSE sbgc_parser.phase
                         IN  (after = "READ_CMD_ID") <=> (uvec[fed[i + 1] + 1] = 62)

\* a discarded attempt that holds a 0x3E behind its header byte, directly
\* followed by a 0x3E that starts the next frame
C13_Witness ==
    /\ InCall
    /\ \E i \in 1..Len(rets) : \E s \in 1..i :
          /\ rets[i] = "FRAME_DISCARDED"
          /\ AttemptOf(i, s)
          /\ \E j \in (s + 1)..i : uvec[fed[j] + 1] = 62
          /\ i + 1 < Len(fed)
          /\ uvec[fed[i + 1] + 1] = 62
          /\ phs[i + 2] = "READ_CMD_ID"

----------------------------------------------------------------------------
(* C14 *)

Discards == {i \in 1..Len(rets) : rets[i] = "FRAME_DISCARDED"}

\* feed number i compared a checksum byte and found it wrong
ChecksumMismatchAt(i) ==
    \/ /\ phs[i] = "VERIFY_HEADER_CHECKSUM"
       /\ i >= 3
       /\ uvec[fed[i] + 1] # (uvec[fed[i] - 1] + uvec[fed[i]]) % 256
    \/ /\ phs[i] = "VERIFY_PAYLOAD_CHECKSUM"
       /\ \E L \in 0..(i - 4) :
             \* the L feeds before it read the payload that the length byte declares
             /\ phs[i - L - 1] = "VERIFY_HEADER_CHECKSUM"
             /\ \A j \in (i - L)..(i - 1) : phs[j] = "READ_PAYLOAD"
             /\ uvec[fed[i] - L - 1] = L
             /\ uvec[fed[i] + 1] # SumRange(uvec, fed[i] - L + 1, fed[i]) % 256

\* C14: error accounting.  At every point of a valid-input call error_count
\* is the number of feeds that reported FRAME_DISCARDED so far (0 before the
\* first feed), the loop's numErr_start has caught up with it, and the feeds
\* that reported FRAME_DISCARDED are exactly the header-checksum and
\* payload-checksum comparisons that failed: no byte dropped in SEEK_HEADER,
\* no completed frame and no frame cut off by the end of the buffer is counted.
C14_ErrorAccounting ==
    InCall =>
        /\ sbgc_parser.error_count = Cardinality(Discards)
        /\ numErr_start = sbgc_parser.error_count
        /\ \A i \in 1..Len(rets) :
              (rets[i] = "FRAME_DISCARDED") <=> ChecksumMismatchAt(i)

\* a call that dropped a garbage byte, discarded one frame and then ran out
\* of buffer inside the next frame: one error counted
C14_Witness ==
    /\ Returned /\ ValidInput
    /\ uvec[1] # 62
    /\ sbgc_parser.phase = "READ_LENGTH"
    /\ sbgc_parser.error_count = 1
    /\ Cardinality(Discards) = 1

----------------------------------------------------------------------------
(* C15 *)

\* the state machine of spec.md 4.1 on its own, no error counter watched and
\* no reset called: the decoder after the first k bytes of buf
RECURSIVE MachineAfter(_, _)
MachineAfter(buf, k) ==
    IF k = 0 THEN init_noCom ELSE feed(MachineAfter(buf, k - 1), buf[k]).p

\* C15: the loop of mdlOutputs, with its error-count watch and its call of
\* reset, goes through the same decoder states, phase by phase and report by
\* report, as the bare state machine fed the same bytes; a feed that reports
\* FRAME_READY leaves the decoder in DONE (reset is not called on it); and the
\* outputs are those the bare machine gives: (command id, 1) when it ends in
\* DONE, (0, 0) otherwise.
C15_ResetLoopEquivalent ==
    InCall =>
        /\ sbgc_parser = MachineAfter(uvec, Len(fed))
        /\ \A i \in 1..Len(fed) :
              /\ fed[i] = i - 1
              /\ phs[i] = MachineAfter(uvec, i - 1).phase
              /\ rets[i] = feed(MachineAfter(uvec, i - 1), uvec[i]).r
        /\ (rets # <<>> /\ rets[Len(rets)] = "FRAME_READY") =>
              sbgc_parser.phase = "DONE"
        /\ Returned =>
              LET m == MachineAfter(uvec, Len(fed))
              IN  IF m.phase = "DONE"
                  THEN y1 = 1 /\ y0 = m.command_id
                  ELSE y1 = 0 /\ y0 = 0 /\ Len(fed) = len_uvec

\* reset was called for a discarded frame and a later frame was completed
C15_Witness ==
    /\ Returned /\ ValidInput
    /\ Cardinality(Discards) >= 1
    /\ rets[Len(rets)] = "FRAME_READY"
    /\ sbgc_parser.phase = "DONE"
    /\ y1 = 1

----------------------------------------------------------------------------
(* C16 *)

\* the phase feed number i left behind
PhaseAfter(i) == IF i < Len(phs) THEN phs[i + 1] ELSE sbgc_parser.phase

\* the byte feed number i fed
ByteOf(i) == uvec[fed[i] + 1]

\* how many payload bytes have been read once feed number i, a feed in
\* READ_PAYLOAD, is made
Collected(i) == Cardinality({j \in 1..i : \A m \in j..i : phs[m] = "READ_PAYLOAD"})

\* the length declared by the frame that feed number i, in READ_PAYLOAD, belongs to
DeclaredAt(i) == uvec[fed[i] - Collected(i)]

PhaseOrder ==
    <<"SEEK_HEADER", "READ_CMD_ID", "READ_LENGTH", "VERIFY_HEADER_CHECKSUM",
      "READ_PAYLOAD", "VERIFY_PAYLOAD_CHECKSUM", "DONE">>

Successor(a, b) == \E n \in 1..6 : PhaseOrder[n] = a /\ PhaseOrder[n + 1] = b

\* the transitions the claim allows: keep, next in order, back from a VERIFY
KeepsPhase(i) ==
    \/ phs[i] = "SEEK_HEADER" /\ PhaseAfter(i) = "SEEK_HEADER" /\ ByteOf(i) # 62
    \/ /\ phs[i] = "READ_PAYLOAD" /\ PhaseAfter(i) = "READ_PAYLOAD"
       /\ Collected(i) < DeclaredAt(i)

FallsBack(i) ==
    /\ phs[i] \in {"VERIFY_HEADER_CHECKSUM", "VERIFY_PAYLOAD_CHECKSUM"}
    /\ PhaseAfter(i) = "SEEK_HEADER"
    /\ rets[i] = "FRAME_DISCARDED"

\* the claim as stated: every feed keeps the phase, moves to the next phase of
\* the list, or falls back from a VERIFY phase
C16_Original ==
    InCall =>
        \A i \in 1..Len(phs) :
            KeepsPhase(i) \/ Successor(phs[i], PhaseAfter(i)) \/ FallsBack(i)

\* the move from VERIFY_HEADER_CHECKSUM over READ_PAYLOAD when no payload is declared
SkipsPayload(i) ==
    /\ phs[i] = "VERIFY_HEADER_CHECKSUM"
    /\ PhaseAfter(i) = "VERIFY_PAYLOAD_CHECKSUM"
    /\ uvec[fed[i]] = 0
    /\ rets[i] = "CONTINUE"

\* C16: phase ordering.  Starting from SEEK_HEADER every feed keeps the phase
\* (SEEK_HEADER on a non-header byte, READ_PAYLOAD while fewer than
\* payload_length bytes are collected), advances it to the next phase of
\* SEEK_HEADER, READ_CMD_ID, READ_LENGTH, VERIFY_HEADER_CHECKSUM,
\* READ_PAYLOAD, VERIFY_PAYLOAD_CHECKSUM, DONE (into READ_PAYLOAD only with a
\* non-zero payload_length), goes from VERIFY_HEADER_CHECKSUM directly to
\* VERIFY_PAYLOAD_CHECKSUM when payload_length is 0, or falls back to
\* SEEK_HEADER from a VERIFY phase on a mismatch; READ_CMD_ID and READ_LENGTH
\* advance on any byte.
C16_PhaseOrder ==
    InCall =>
        /\ Len(phs) >= 1 => phs[1] = "SEEK_HEADER"
        /\ \A i \in 1..Len(phs) :
              /\ \/ KeepsPhase(i)
                 \/ /\ Successor(phs[i], PhaseAfter(i))
                    /\ phs[i] = "SEEK_HEADER" => ByteOf(i) = 62
                    /\ phs[i] = "VERIFY_HEADER_CHECKSUM" => uvec[fed[i]] # 0
                    /\ phs[i] = "READ_PAYLOAD" => Collected(i) = DeclaredAt(i)
                 \/ SkipsPayload(i)
                 \/ FallsBack(i)
              /\ phs[i] = "READ_CMD_ID" => PhaseAfter(i) = "READ_LENGTH"
              /\ phs[i] = "READ_LENGTH" => PhaseAfter(i) = "VERIFY_HEADER_CHECKSUM"

\* a call in which READ_CMD_ID took a 0x3E as command id and the frame, with
\* no payload, went from the header checksum straight to the payload checksum
C16_Witness ==
    /\ InCall
    /\ \E i \in 1..Len(phs) :
          phs[i] = "READ_CMD_ID" /\ ByteOf(i) = 62 /\ PhaseAfter(i) = "READ_LENGTH"
    /\ \E i \in 1..Len(phs) : SkipsPayload(i)
    /\ \E i \in 1..Len(phs) :
          phs[i] = "READ_LENGTH" /\ PhaseAfter(i) = "VERIFY_HEADER_CHECKSUM"

----------------------------------------------------------------------------
(* C17 *)

MidFrame ==
    {"READ_CMD_ID", "READ_LENGTH", "VERIFY_HEADER_CHECKSUM", "READ_PAYLOAD",
     "VERIFY_PAYLOAD_CHECKSUM"}

\* C17: buffer exhaustion mid-frame.  A valid-input call that returns with its
\* decoder in a phase other than DONE has fed the whole buffer and returns
\* Output B = 0 and Output A = 0, with error_count equal to the number of
\* discarded frames (the unfinished frame is not counted).  The call after it
\* starts from a fresh decoder, a zero error count and the preset Output A,
\* and returns what a cold-start decode of its own buffer returns.
C17_ExhaustionMidFrame ==
    /\ (Returned /\ ValidInput /\ sbgc_parser.phase # "DONE") =>
          /\ y1 = 0
          /\ y0 = 0
          /\ Len(fed) = len_uvec
          /\ sbgc_parser.error_count = Cardinality(Discards)
          /\ sbgc_parser.phase \in MidFrame => rets[Len(rets)] = "CONTINUE"
    /\ (prev \in MidFrame /\ pc = "loop" /\ fed = <<>>) =>
          /\ sbgc_parser = init_noCom
          /\ numErr_start = 0
          /\ y0 = 0
    /\ (prev \in MidFrame /\ Returned /\ ValidInput) =>
          \A d0 \in UninitBytes : decode(uvec, d0) = <<y0, y1>>

\* a well-formed frame cut off before its payload checksum byte, in a call
\* that follows a call whose buffer also ended inside a frame
C17_Witness ==
    /\ Returned /\ ValidInput
    /\ prev = "READ_PAYLOAD"
    /\ uvec = Fit(CutOffFrame)
    /\ sbgc_parser.phase = "VERIFY_PAYLOAD_CHECKSUM"
    /\ sbgc_parser.error_count = 0
    /\ y1 = 0 /\ y0 = 0

----------------------------------------------------------------------------
(* C18 *)

Min(a, b) == IF a < b THEN a ELSE b

\* feed number i was a header checksum that matched
HeaderAccepted(i) == phs[i] = "VERIFY_HEADER_CHECKSUM" /\ rets[i] = "CONTINUE"

\* C18: payload framing.  After feed number i matched the header checksum of
\* a frame that declares L payload bytes, the next L feeds are of the next L
\* bytes of the buffer and all find READ_PAYLOAD, whatever the bytes are; the
\* feed after them is of the byte at offset L + 1, finds
\* VERIFY_PAYLOAD_CHECKSUM and reports FRAME_READY exactly when that byte is
\* the sum of the L payload bytes mod 256 (0 for L = 0, where no payload byte
\* is consumed); while the frame is being read the accumulated payload is
\* the bytes consumed so far; and the payload never holds more than
\* payload_length bytes.
C18_PayloadFraming ==
    InCall =>
        /\ Len(sbgc_parser.payload) <= sbgc_parser.payload_length
        /\ \A i \in 1..Len(phs) :
              HeaderAccepted(i) =>
                  LET L == uvec[fed[i]]
                      h == fed[i] + 1
                  IN  /\ \A j \in 1..L :
                            i + j <= Len(phs) =>
                                phs[i + j] = "READ_PAYLOAD" /\ fed[i + j] = fed[i] + j
                      /\ i + L + 1 <= Len(phs) =>
                            /\ phs[i + L + 1] = "VERIFY_PAYLOAD_CHECKSUM"
                            /\ fed[i + L + 1] = fed[i] + L + 1
                            /\ (rets[i + L + 1] = "FRAME_READY")
                                 <=> (uvec[h + L + 1] = SumRange(uvec, h + 1, h + L) % 256)
                            /\ (rets[i + L + 1] = "FRAME_DISCARDED")
                                 <=> (uvec[h + L + 1] # SumRange(uvec, h + 1, h + L) % 256)
                      /\ Len(phs) <= i + L + 1 =>
                            /\ sbgc_parser.payload_length = L
                            /\ sbgc_parser.payload
                                 = SubSeq(uvec, h + 1, h + Min(L, Len(phs) - i))

\* a payload byte equal to 0x3E was read as payload, and a frame without
\* payload had the byte behind its header checksum accepted as payload checksum
C18_Witness ==
    /\ InCall
    /\ \E i \in 1..Len(phs) :
          /\ phs[i] = "READ_PAYLOAD" /\ ByteOf(i) = 62
          /\ PhaseAfter(i) \in {"READ_PAYLOAD", "VERIFY_PAYLOAD_CHECKSUM"}
    /\ \E i \in 1..(Len(phs) - 1) :
          /\ HeaderAccepted(i) /\ uvec[fed[i]] = 0
          /\ rets[i + 1] = "FRAME_READY"

----------------------------------------------------------------------------
(* C19 *)

\* the value process_char returned for the last byte fed
LastResult == IF rets[Len(rets)] = "FRAME_READY" THEN 1 ELSE 0

\* C19: on every valid-input invocation done has been assigned by at least
\* one process_char call before it is written to output B: the buffer width
\* is at least 1, so when the loop is left at least one byte has been fed and
\* done holds the result of the last feed, and output B is that result,
\* never the value done had before the loop.
C19_DoneAssigned ==
    /\ len_uvec >= 1
    /\ (pc = "break" \/ (pc = "loop" /\ ~LoopCond(uidx))) =>
          /\ Len(fed) >= 1
          /\ done = LastResult
    /\ (Returned /\ ValidInput) =>
          /\ Len(fed) >= 1
          /\ done = LastResult
          /\ y1 = LastResult

\* the frame completed on the last byte of the buffer: output B is the result
\* of the last pass of the loop
C19_Witness ==
    /\ Returned /\ ValidInput
    /\ Len(fed) = len_uvec
    /\ rets[Len(rets)] = "FRAME_READY"
    /\ done = 1 /\ y1 = 1

====
